---- MODULE Spec2Model ----
(***************************************************************************)
(* A model of w2.py, a Streamlit script that reads an uploaded ledger CSV, *)
(* resolves four columns, normalises balance and disposition, keeps the    *)
(* SELLABLE rows, aggregates them by (Location, MSKU) and renders metrics, *)
(* per-location cards, an aggregate CSV and a PDF report.                  *)
(*                                                                         *)
(* Text is a sequence of one-character strings, so that strip(), lower(),  *)
(* upper(), the regex replacements and the regex search are computed       *)
(* character by character.  A missing cell (pandas NaN) is the text NaN.   *)
(***************************************************************************)
EXTENDS Integers, Sequences, FiniteSets, TLC

VARIABLES
    pc,               \* position of the script run
    file,             \* the uploaded file: what each read raises, and its table
    search_text,      \* content of the "Filter MSKU contains" text input
    attempts,         \* read strategies tried so far, in order
    df,               \* the DataFrame
    found,            \* required key -> resolved column, or None
    message,          \* st.error / st.warning shown, if any
    df_sellable,      \* rows of df with Disposition == "SELLABLE"
    agg,              \* the aggregate (rebound by the search filter)
    location_totals,  \* Location -> total
    locations,        \* Locations ordered by total
    metrics,          \* the three st.metric widgets
    cards,            \* the per-location cards with their CSV downloads
    agg_csv,          \* the "Download aggregated CSV" payload
    pdf               \* the "Download PDF" payload

vars == <<pc, file, search_text, attempts, df, found, message, df_sellable, agg,
          location_totals, locations, metrics, cards, agg_csv, pdf>>

----------------------------------------------------------------------------
(* Bounds of the model *)

MaxRows == 2
MaxCols == 4
MaxLen == 4
MaxSearch == 2

----------------------------------------------------------------------------
(* Text helpers: str.strip, str.lower, str.upper *)

(* str.lower / str.upper on the letters; every other character is kept *)
ToLower ==
    [A |-> "a", B |-> "b", C |-> "c", D |-> "d", E |-> "e", F |-> "f", G |-> "g",
     H |-> "h", I |-> "i", J |-> "j", K |-> "k", L |-> "l", M |-> "m", N |-> "n",
     O |-> "o", P |-> "p", Q |-> "q", R |-> "r", S |-> "s", T |-> "t", U |-> "u",
     V |-> "v", W |-> "w", X |-> "x", Y |-> "y", Z |-> "z"]

ToUpper ==
    [a |-> "A", b |-> "B", c |-> "C", d |-> "D", e |-> "E", f |-> "F", g |-> "G",
     h |-> "H", i |-> "I", j |-> "J", k |-> "K", l |-> "L", m |-> "M", n |-> "N",
     o |-> "O", p |-> "P", q |-> "Q", r |-> "R", s |-> "S", t |-> "T", u |-> "U",
     v |-> "V", w |-> "W", x |-> "X", y |-> "Y", z |-> "Z"]

Whitespace == {" ", "\t"}

DigitValues ==
    [c \in {"0","1","2","3","4","5","6","7","8","9"} |->
        CASE c = "0" -> 0 [] c = "1" -> 1 [] c = "2" -> 2 [] c = "3" -> 3
          [] c = "4" -> 4 [] c = "5" -> 5 [] c = "6" -> 6 [] c = "7" -> 7
          [] c = "8" -> 8 [] c = "9" -> 9]

LowerChar(c) == IF c \in DOMAIN ToLower THEN ToLower[c] ELSE c

UpperChar(c) == IF c \in DOMAIN ToUpper THEN ToUpper[c] ELSE c

Lower(s) == [i \in 1..Len(s) |-> LowerChar(s[i])]

Upper(s) == [i \in 1..Len(s) |-> UpperChar(s[i])]

RECURSIVE LStrip(_)
LStrip(s) ==
    IF s # <<>> /\ Head(s) \in Whitespace THEN LStrip(Tail(s)) ELSE s

RECURSIVE RStrip(_)
RStrip(s) ==
    IF s # <<>> /\ s[Len(s)] \in Whitespace
    THEN RStrip(SubSeq(s, 1, Len(s) - 1))
    ELSE s

Strip(s) == RStrip(LStrip(s))

(* pandas NaN, Python None, and str(NaN) *)
NaN == <<"NaN">>

None == <<"None">>

AsTypeStr(cell) == IF cell = NaN THEN <<"n","a","n">> ELSE cell

FillNa(cell, value) == IF cell = NaN THEN value ELSE cell

----------------------------------------------------------------------------
(* The literals of the script *)

T_MSKU == <<"M","S","K","U">>

T_Disposition == <<"D","i","s","p","o","s","i","t","i","o","n">>

T_Balance ==
    <<"E","n","d","i","n","g"," ","W","a","r","e","h","o","u","s","e"," ",
      "B","a","l","a","n","c","e">>

T_Location == <<"L","o","c","a","t","i","o","n">>

T_SELLABLE == <<"S","E","L","L","A","B","L","E">>

T_Unknown == <<"U","n","k","n","o","w","n">>

RequiredKeys == <<"msku", "disposition", "balance", "location">>

KeyText ==
    [msku |-> <<"m","s","k","u">>,
     disposition |-> <<"d","i","s","p","o","s","i","t","i","o","n">>,
     balance |-> <<"b","a","l","a","n","c","e">>,
     location |-> <<"l","o","c","a","t","i","o","n">>]

required ==
    [msku |-> T_MSKU, disposition |-> T_Disposition,
     balance |-> T_Balance, location |-> T_Location]

----------------------------------------------------------------------------
(* a plausible slip: latin1 tried before the default encoding *)
StrategiesLatin1First == <<"latin1", "default", "utf-8", "lenient">>

(* _read_csv_safe: the strategies in the order the function tries them *)

Strategies == <<"default", "latin1", "utf-8", "lenient">>

----------------------------------------------------------------------------
(* _find_column_by_name *)

(* a plausible slip: trimmed but case-sensitive comparison *)
FindColumnCaseSensitive(columns, desired_name) ==
    LET want == Strip(desired_name)
        hits == {i \in 1..Len(columns) : Strip(columns[i]) = want}
    IN  IF hits = {} THEN None
        ELSE columns[CHOOSE i \in hits : \A j \in hits : j <= i]

(* mapping = {c.strip().lower(): c for c in df.columns}: a later column     *)
(* overwrites an earlier one with the same key; mapping.get returns None.   *)
_find_column_by_name(columns, desired_name) ==
    LET want == Lower(Strip(desired_name))
        hits == {i \in 1..Len(columns) : Lower(Strip(columns[i])) = want}
    IN  IF hits = {} THEN None
        ELSE columns[CHOOSE i \in hits : \A j \in hits : j <= i]

(* the loop over required.items(): the pretty name, then the key *)
ResolveKey(columns, key) ==
    LET col == _find_column_by_name(columns, required[key])
    IN  IF col = None THEN _find_column_by_name(columns, KeyText[key]) ELSE col

(* a plausible slip: all instead of any *)
MissingOnlyWhenAll(fnd) ==
    IF \A k \in DOMAIN fnd : fnd[k] = None THEN DOMAIN fnd ELSE {}

(* missing = [v for k, v in found.items() if v is None] *)
missing(fnd) == {k \in DOMAIN fnd : fnd[k] = None}

----------------------------------------------------------------------------
(* Value normaliser: lines 128-135 *)

IsDigit(c) == c \in DOMAIN DigitValues

DigitValue(c) == DigitValues[c]

(* .str.replace(",", "", regex=False) *)
ReplaceCommas(s) == SelectSeq(s, LAMBDA c : c # ",")

(* .str.replace(r"[^\d\.\-]", "", regex=True) *)
ReplaceNonNumeric(s) == SelectSeq(s, LAMBDA c : IsDigit(c) \/ c = "." \/ c = "-")

CleanBalance(cell) == ReplaceNonNumeric(ReplaceCommas(AsTypeStr(cell)))

RECURSIVE DecimalValue(_)
DecimalValue(ds) ==
    IF ds = <<>> THEN 0
    ELSE 10 * DecimalValue(SubSeq(ds, 1, Len(ds) - 1)) + DigitValue(ds[Len(ds)])

NotANumber == [nan |-> TRUE, neg |-> FALSE, int |-> 0, frac |-> <<>>]

(* pd.to_numeric(..., errors="coerce") on a text of digits, "." and "-": an  *)
(* optional leading "-", digits with at most one ".", at least one digit;    *)
(* anything else is coerced to NaN.                                          *)
ToNumeric(s) ==
    LET neg  == s # <<>> /\ Head(s) = "-"
        body == IF neg THEN Tail(s) ELSE s
        dots == {i \in 1..Len(body) : body[i] = "."}
        ok   == /\ \A i \in 1..Len(body) : IsDigit(body[i]) \/ body[i] = "."
                /\ Cardinality(dots) <= 1
                /\ \E i \in 1..Len(body) : IsDigit(body[i])
        dot  == IF dots = {} THEN Len(body) + 1 ELSE CHOOSE i \in dots : TRUE
    IN  IF ~ok THEN NotANumber
        ELSE [nan  |-> FALSE,
              neg  |-> neg,
              int  |-> DecimalValue(SubSeq(body, 1, dot - 1)),
              frac |-> SubSeq(body, dot + 1, Len(body))]

(* .fillna(0) *)
FillNaZero(n) == IF n.nan THEN [nan |-> FALSE, neg |-> FALSE, int |-> 0, frac |-> <<>>] ELSE n

(* a plausible slip: rounding to nearest instead of truncating *)
AsTypeIntRounding(n) ==
    LET up == IF n.frac # <<>> /\ DigitValue(n.frac[1]) >= 5 THEN 1 ELSE 0
    IN  IF n.neg THEN 0 - (n.int + up) ELSE n.int + up

(* .astype(int): truncation toward zero *)
AsTypeInt(n) == IF n.neg THEN 0 - n.int ELSE n.int

NormalizeBalance(cell) == AsTypeInt(FillNaZero(ToNumeric(CleanBalance(cell))))

(* .astype(str).str.strip().str.upper() *)
NormalizeDisposition(cell) == Upper(Strip(AsTypeStr(cell)))

(* df[col]: position of the column named col *)
ColIndex(columns, col) == CHOOSE i \in 1..Len(columns) : columns[i] = col

NormalizeRows(rows, bi, di) ==
    [r \in 1..Len(rows) |->
        [c \in 1..Len(rows[r]) |->
            IF c = bi THEN NormalizeBalance(rows[r][c])
            ELSE IF c = di THEN NormalizeDisposition(rows[r][c])
            ELSE rows[r][c]]]

(* df[df[disp_col] == "SELLABLE"] *)
SellableRows(rows, di) == SelectSeq(rows, LAMBDA row : row[di] = T_SELLABLE)

(* df_sellable[loc_col].fillna("Unknown") *)
FillLocation(rows, li) ==
    [r \in 1..Len(rows) |-> [rows[r] EXCEPT ![li] = FillNa(@, T_Unknown)]]

----------------------------------------------------------------------------
(* Aggregator: lines 144-155 *)

RECURSIVE SumSeq(_)
SumSeq(s) == IF s = <<>> THEN 0 ELSE Head(s) + SumSeq(Tail(s))

GroupRows(rows, li, mi, key) ==
    SelectSeq(rows, LAMBDA row : row[li] = key[1] /\ row[mi] = key[2])

(* a plausible slip: keeping a group's first balance instead of the sum *)
GroupByFirst(rows, li, mi, bi) ==
    LET keys == {<<rows[r][li], rows[r][mi]>> : r \in 1..Len(rows)}
        kept == {k \in keys : k[1] # NaN /\ k[2] # NaN}
    IN  {[Location |-> k[1], MSKU |-> k[2],
          Balance |-> GroupRows(rows, li, mi, k)[1][bi]] : k \in kept}

(* .groupby([loc_col, msku_col], as_index=False)[bal_col].sum(): one row per *)
(* key; groupby's default dropna=True leaves out keys with a NaN component.  *)
GroupBySum(rows, li, mi, bi) ==
    LET keys == {<<rows[r][li], rows[r][mi]>> : r \in 1..Len(rows)}
        kept == {k \in keys : k[1] # NaN /\ k[2] # NaN}
    IN  {[Location |-> k[1], MSKU |-> k[2],
          Balance |-> LET g == GroupRows(rows, li, mi, k)
                      IN  SumSeq([i \in 1..Len(g) |-> g[i][bi]])] : k \in kept}

RECURSIVE SumBalance(_)
SumBalance(frame) ==
    IF frame = {} THEN 0
    ELSE LET row == CHOOSE row \in frame : TRUE
         IN  row.Balance + SumBalance(frame \ {row})

(* agg.groupby("Location")["Ending Warehouse Balance"].sum() *)
LocationTotals(frame) ==
    [loc \in {row.Location : row \in frame} |->
        SumBalance({row \in frame : row.Location = loc})]

Orderings(S) ==
    {s \in [1..Cardinality(S) -> S] : \A i, j \in DOMAIN s : i # j => s[i] # s[j]}

(* a plausible slip: ascending order *)
SortValuesAscending(totals) ==
    {s \in Orderings(DOMAIN totals) :
        \A i, j \in DOMAIN s : i < j => totals[s[i]] <= totals[s[j]]}

(* .sort_values(ascending=False), then list(.index): the order among equal  *)
(* totals is whatever the sort leaves, so every sorted order is possible.    *)
SortValuesDescending(totals) ==
    {s \in Orderings(DOMAIN totals) :
        \A i, j \in DOMAIN s : i < j => totals[s[i]] >= totals[s[j]]}

----------------------------------------------------------------------------
(* Search filter: lines 165-169 *)

(* Series.str.contains(search): regex=True by default, so the text is a      *)
(* pattern handed to re.search; "." matches any character, the other         *)
(* characters of the model's alphabet match themselves.                      *)
RegexMatchesAt(text, pattern, at) ==
    /\ at + Len(pattern) - 1 <= Len(text)
    /\ \A j \in 1..Len(pattern) : pattern[j] = "." \/ pattern[j] = text[at + j - 1]

StrContains(text, pattern) ==
    \E at \in 1..(Len(text) + 1) : RegexMatchesAt(text, pattern, at)

FilterFrame(frame, search) ==
    {row \in frame : StrContains(Lower(AsTypeStr(row.MSKU)), search)}

----------------------------------------------------------------------------
(* Report renderer: lines 51-88, 187-218 *)

T_sellable_csv == <<"_","s","e","l","l","a","b","l","e",".","c","s","v">>

(* loc.replace(' ', '_') *)
ReplaceSpaces(s) == [i \in 1..Len(s) |-> IF s[i] = " " THEN "_" ELSE s[i]]

(* the cards, three to a row of the grid, in the order of locations; the    *)
(* order of the rows inside one card is not modelled.                        *)
RenderedCards(frame, locs) ==
    [i \in 1..Len(locs) |->
        LET loc_df == {row \in frame : row.Location = locs[i]}
        IN  [Location  |-> locs[i],
             column    |-> (i - 1) % 3,
             total     |-> SumBalance(loc_df),
             rows      |-> loc_df,
             file_name |-> ReplaceSpaces(locs[i]) \o T_sellable_csv]]

(* frame.to_csv(index=False): the header row and one line per row *)
ToCsv(frame) ==
    [produced |-> TRUE,
     header   |-> <<T_Location, T_MSKU, T_Balance>>,
     rows     |-> frame]

(* generate_pdf_report: one section per Location, one table row per MSKU;   *)
(* the timestamp line is not modelled.                                       *)
generate_pdf_report(frame) ==
    [produced |-> TRUE,
     sections |-> {[Location |-> loc,
                    header   |-> <<T_MSKU, T_Balance>>,
                    rows     |-> {[MSKU |-> row.MSKU, Balance |-> row.Balance] :
                                     row \in {r \in frame : r.Location = loc}}] :
                   loc \in {row.Location : row \in frame}}]

----------------------------------------------------------------------------
(* The uploaded files and filter texts the model runs the script on *)

StrategySet == {"default", "latin1", "utf-8", "lenient"}

SeqsUpTo(S, n) == UNION {[1..k -> S] : k \in 0..n}

M_ABC1 == <<"A","B","C","-","1">>

M_XYZ2 == <<"X","Y","Z","-","2">>

M_ABC3 == <<"A","B","C","-","3">>

M_AxB == <<"A","x","B">>

D_Sellable == <<"S","e","l","l","a","b","l","e">>

D_sellable_padded == <<" ","s","e","l","l","a","b","l","e","\t">>

D_DAMAGED == <<"D","A","M","A","G","E","D">>

B_units == <<"1",",","2","3","4",".","9"," ","u","n","i","t","s">>

B_abc == <<"a","b","c">>

B_minus56 == <<"-","5","6">>

CanonicalColumns == <<T_MSKU, T_Disposition, T_Balance, T_Location>>

(* ledger lines in the column order of CanonicalColumns *)
LedgerRows ==
    {<<m, T_SELLABLE, <<"3">>, l>> : m \in {M_ABC1, M_XYZ2}, l \in {<<"A">>, <<"B">>}}
    \cup
    {<<M_ABC1, D_Sellable, <<"2">>, <<"A">>>>,
     <<M_ABC1, D_DAMAGED, <<"7">>, <<"A">>>>,
     <<M_ABC1, T_SELLABLE, <<"4">>, NaN>>,
     <<M_ABC1, D_sellable_padded, <<"1">>, T_Unknown>>,
     <<NaN, T_SELLABLE, <<"5">>, <<"A">>>>,
     <<M_XYZ2, T_SELLABLE, <<"-","5">>, <<"A">>>>,
     <<M_XYZ2, T_SELLABLE, B_units, <<"B">>>>,
     <<M_XYZ2, NaN, B_abc, <<"B">>>>}

Table(columns, rows) == [columns |-> columns, rows |-> rows]

ReadableFile(table) == [raises |-> {}, tables |-> [s \in StrategySet |-> table]]

SearchTable ==
    Table(CanonicalColumns,
          <<<<M_ABC1, T_SELLABLE, <<"3">>, <<"A">>>>,
            <<M_XYZ2, T_SELLABLE, <<"2">>, <<"A">>>>,
            <<M_ABC3, T_SELLABLE, <<"4">>, <<"B">>>>,
            <<M_AxB,  T_SELLABLE, <<"1">>, <<"C">>>>>>)

DamagedTable ==
    Table(CanonicalColumns,
          <<<<M_ABC1, D_DAMAGED, <<"3">>, <<"A">>>>,
            <<M_XYZ2, D_DAMAGED, <<"2">>, <<"B">>>>>>)

T_abc == <<"a","b","c">>

(* every ledger of at most MaxRows lines, unfiltered and filtered by "abc" *)
LedgerInputs ==
    {[file |-> ReadableFile(Table(CanonicalColumns, rows)), search |-> s] :
        rows \in SeqsUpTo(LedgerRows, MaxRows), s \in {<<>>, T_abc}}

(* every combination of raising reads, each read decoding its own table;   *)
(* nothing is assumed about which encodings pandas takes as the default     *)
ReaderInputs ==
    {[file |-> [raises |-> r, tables |-> t], search |-> <<>>] :
        r \in SUBSET StrategySet, t \in [StrategySet -> {SearchTable, DamagedTable}]}

HeaderSamples ==
    {[name |-> T_MSKU, role |-> "msku"],
     [name |-> <<" ","m","s","k","u"," ">>, role |-> "msku"],
     [name |-> <<"M","s","k","u">>, role |-> "msku"],
     [name |-> <<"S","K","U">>, role |-> "other"],
     [name |-> T_Disposition, role |-> "disposition"],
     [name |-> <<"B","a","l","a","n","c","e">>, role |-> "balance"],
     [name |-> T_Balance, role |-> "balance"],
     [name |-> T_Location, role |-> "location"]}

SampleCell ==
    [msku |-> M_ABC1, disposition |-> T_SELLABLE, balance |-> <<"3">>,
     location |-> <<"A">>, other |-> <<"x">>]

(* header rows of at most MaxCols columns, no two equal once trimmed (two    *)
(* such columns would make df[col] a frame, not a series), over one line     *)
HeaderInputs ==
    {[file |-> ReadableFile(Table([i \in DOMAIN hs |-> hs[i].name],
                                  <<[i \in DOMAIN hs |-> SampleCell[hs[i].role]]>>)),
      search |-> <<>>] :
        hs \in {h \in SeqsUpTo(HeaderSamples, MaxCols) :
                   /\ h # <<>>
                   /\ \A i, j \in DOMAIN h :
                         i # j => Strip(h[i].name) # Strip(h[j].name)}}

BalanceAlphabet == {"1", "2", ",", ".", "-", "u"}

(* every balance cell of at most MaxLen characters, and the named examples *)
BalanceInputs ==
    {[file |-> ReadableFile(Table(CanonicalColumns,
                                  <<<<M_ABC1, T_SELLABLE, b, <<"A">>>>>>)),
      search |-> <<>>] :
        b \in SeqsUpTo(BalanceAlphabet, MaxLen) \cup {B_units, B_abc, B_minus56, NaN}}

SearchAlphabet == {"a", "B", "x", ".", "-", " "}

(* every filter text of at most MaxSearch characters, and "abc" *)
SearchInputs ==
    {[file |-> ReadableFile(SearchTable), search |-> s] :
        s \in SeqsUpTo(SearchAlphabet, MaxSearch) \cup {T_abc}}

----------------------------------------------------------------------------
(* The script run *)

NoMessage == [kind |-> "none", what |-> "none"]

Uploaded(inputs) ==
    \E input \in inputs :
        /\ file = input.file
        /\ search_text = input.search

Init ==
    /\ \/ Uploaded(LedgerInputs)
       \/ Uploaded(ReaderInputs)
       \/ Uploaded(HeaderInputs)
       \/ Uploaded(BalanceInputs)
       \/ Uploaded(SearchInputs)
    /\ pc = "read"
    /\ attempts = <<>>
    /\ df = Table(<<>>, <<>>)
    /\ found = <<>>
    /\ message = NoMessage
    /\ df_sellable = <<>>
    /\ agg = {}
    /\ location_totals = <<>>
    /\ locations = <<>>
    /\ metrics = [produced |-> FALSE]
    /\ cards = <<>>
    /\ agg_csv = [produced |-> FALSE]
    /\ pdf = [produced |-> FALSE]

(* lines 30-36: one pass of the loop over (None, "latin1", "utf-8"); a read *)
(* that raises rewinds the file and the loop goes on.                       *)
ReadStrict(k) ==
    /\ pc = "read"
    /\ Len(attempts) = k - 1
    /\ attempts' = Append(attempts, Strategies[k])
    /\ IF Strategies[k] \in file.raises
       THEN /\ pc' = "read"
            /\ df' = df
       ELSE /\ pc' = "resolve"
            /\ df' = file.tables[Strategies[k]]
    /\ UNCHANGED <<file, search_text, found, message, df_sellable, agg,
                   location_totals, locations, metrics, cards, agg_csv, pdf>>

ReadDefault == ReadStrict(1)

ReadLatin1 == ReadStrict(2)

ReadUtf8 == ReadStrict(3)

(* lines 37-38 and 93-97: the lenient read after the loop; when it raises   *)
(* (as it always does where pandas no longer takes error_bad_lines), main   *)
(* reports the error and stops.                                             *)
ReadLenient ==
    /\ pc = "read"
    /\ Len(attempts) = 3
    /\ attempts' = Append(attempts, Strategies[4])
    /\ IF Strategies[4] \in file.raises
       THEN /\ pc' = "stopped"
            /\ message' = [kind |-> "error", what |-> "read"]
            /\ df' = df
       ELSE /\ pc' = "resolve"
            /\ message' = message
            /\ df' = file.tables[Strategies[4]]
    /\ UNCHANGED <<file, search_text, found, df_sellable, agg,
                   location_totals, locations, metrics, cards, agg_csv, pdf>>

(* the st.error of lines 117-120: the fixed list of required names and the  *)
(* (trimmed) columns of the frame                                           *)
SchemaMessage(columns) ==
    [kind     |-> "error",
     what     |-> "schema",
     required |-> <<T_MSKU, T_Disposition, T_Balance, T_Location>>,
     found    |-> columns]

(* lines 99-126 *)
Resolve ==
    /\ pc = "resolve"
    /\ LET columns == [i \in DOMAIN df.columns |-> Strip(df.columns[i])]
           fnd == [key \in {RequiredKeys[i] : i \in DOMAIN RequiredKeys} |->
                      ResolveKey(columns, key)]
       IN  /\ df' = [df EXCEPT !.columns = columns]
           /\ found' = fnd
           /\ IF missing(fnd) # {}
              THEN /\ message' = SchemaMessage(columns)
                   /\ pc' = "stopped"
              ELSE /\ message' = message
                   /\ pc' = "normalize"
    /\ UNCHANGED <<file, search_text, attempts, df_sellable, agg,
                   location_totals, locations, metrics, cards, agg_csv, pdf>>

(* a plausible slip: the empty check left out *)
NeverEmpty(rows) == FALSE

(* df_sellable.empty *)
Empty(rows) == rows = <<>>

(* lines 128-140 *)
Normalize ==
    /\ pc = "normalize"
    /\ LET bi == ColIndex(df.columns, found.balance)
           di == ColIndex(df.columns, found.disposition)
           rows == NormalizeRows(df.rows, bi, di)
           sellable == SellableRows(rows, di)
       IN  /\ df' = [df EXCEPT !.rows = rows]
           /\ df_sellable' = sellable
           /\ IF Empty(sellable)
              THEN /\ message' = [kind |-> "warning", what |-> "empty"]
                   /\ pc' = "stopped"
              ELSE /\ message' = message
                   /\ pc' = "aggregate"
    /\ UNCHANGED <<file, search_text, attempts, found, agg,
                   location_totals, locations, metrics, cards, agg_csv, pdf>>

(* lines 142-160 *)
Aggregate ==
    /\ pc = "aggregate"
    /\ LET li == ColIndex(df.columns, found.location)
           mi == ColIndex(df.columns, found.msku)
           bi == ColIndex(df.columns, found.balance)
           filled == FillLocation(df_sellable, li)
           frame == GroupBySum(filled, li, mi, bi)
           totals == LocationTotals(frame)
       IN  /\ df_sellable' = filled
           /\ agg' = frame
           /\ location_totals' = totals
           /\ \E order \in SortValuesDescending(totals) :
                 /\ locations' = order
                 /\ metrics' = [produced |-> TRUE,
                                total_warehouses |-> Len(order),
                                unique_skus |-> Cardinality({row.MSKU : row \in frame}),
                                overall_total |-> SumBalance(frame)]
    /\ pc' = "search"
    /\ UNCHANGED <<file, search_text, attempts, df, found, message,
                   cards, agg_csv, pdf>>

(* lines 165-169 *)
Search ==
    /\ pc = "search"
    /\ LET search == Lower(Strip(search_text))
       IN  IF search # <<>>
           THEN LET frame == FilterFrame(agg, search)
                    totals == LocationTotals(frame)
                IN  /\ agg' = frame
                    /\ location_totals' = totals
                    /\ locations' \in SortValuesDescending(totals)
           ELSE UNCHANGED <<agg, location_totals, locations>>
    /\ pc' = "cards"
    /\ UNCHANGED <<file, search_text, attempts, df, found, message, df_sellable,
                   metrics, cards, agg_csv, pdf>>

(* lines 171-198 *)
RenderCards ==
    /\ pc = "cards"
    /\ cards' = RenderedCards(agg, locations)
    /\ pc' = "csv"
    /\ UNCHANGED <<file, search_text, attempts, df, found, message, df_sellable,
                   agg, location_totals, locations, metrics, agg_csv, pdf>>

(* lines 200-207 *)
DownloadCsv ==
    /\ pc = "csv"
    /\ agg_csv' = ToCsv(agg)
    /\ pc' = "pdf"
    /\ UNCHANGED <<file, search_text, attempts, df, found, message, df_sellable,
                   agg, location_totals, locations, metrics, cards, pdf>>

(* lines 209-218 *)
DownloadPdf ==
    /\ pc = "pdf"
    /\ pdf' = generate_pdf_report(agg)
    /\ pc' = "done"
    /\ UNCHANGED <<file, search_text, attempts, df, found, message, df_sellable,
                   agg, location_totals, locations, metrics, cards, agg_csv>>

Next ==
    \/ ReadDefault
    \/ ReadLatin1
    \/ ReadUtf8
    \/ ReadLenient
    \/ Resolve
    \/ Normalize
    \/ Aggregate
    \/ Search
    \/ RenderCards
    \/ DownloadCsv
    \/ DownloadPdf

Spec == Init /\ [][Next]_vars

----------------------------------------------------------------------------
(* Vocabulary of the properties *)

Loaded == pc # "read" /\ message.what # "read"

ResolvedAll == Loaded /\ pc # "resolve" /\ message.what # "schema"

Normalized == ResolvedAll /\ pc # "normalize"

Aggregated == pc \in {"search", "cards", "csv", "pdf", "done"}

NothingRendered ==
    /\ ~metrics.produced
    /\ cards = <<>>
    /\ ~agg_csv.produced
    /\ ~pdf.produced

(* the table as the successful read returned it *)
RawTable == file.tables[attempts[Len(attempts)]]

MskuIdx == ColIndex(df.columns, found.msku)

DispIdx == ColIndex(df.columns, found.disposition)

BalIdx == ColIndex(df.columns, found.balance)

LocIdx == ColIndex(df.columns, found.location)

(* the cell reads SELLABLE up to case and surrounding whitespace *)
SellableSpelling(cell) ==
    cell # NaN /\ Lower(Strip(cell)) = <<"s","e","l","l","a","b","l","e">>

SellableIdx == {i \in 1..Len(RawTable.rows) : SellableSpelling(RawTable.rows[i][DispIdx])}

RawKey(i) ==
    <<IF RawTable.rows[i][LocIdx] = NaN THEN T_Unknown ELSE RawTable.rows[i][LocIdx],
      RawTable.rows[i][MskuIdx]>>

RECURSIVE SumIdx(_, _, _)
SumIdx(rows, I, col) ==
    IF I = {} THEN 0
    ELSE LET i == CHOOSE i \in I : TRUE
         IN  rows[i][col] + SumIdx(rows, I \ {i}, col)

(* the aggregate of the whole sellable frame, whatever agg is bound to now *)
FullAggregate == GroupBySum(df_sellable, LocIdx, MskuIdx, BalIdx)

LiteralContains(text, part) ==
    \E at \in 1..(Len(text) + 1) :
        /\ at + Len(part) - 1 <= Len(text)
        /\ SubSeq(text, at, at + Len(part) - 1) = part

----------------------------------------------------------------------------
(* C1: once the aggregate is computed, the sum of its balances equals the  *)
(* sum of the normalised balances of all input rows whose trimmed,          *)
(* upper-cased disposition is SELLABLE, rows with a missing location or     *)
(* MSKU included.  The code drops the rows whose MSKU is missing.           *)
C1_SumInvariant ==
    pc = "search" => SumBalance(agg) = SumIdx(df.rows, SellableIdx, BalIdx)

(* C2: the aggregate has at most one row per (location, MSKU); the rows of  *)
(* the input with one location and one MSKU whose disposition reads         *)
(* SELLABLE in any case and padding are merged into the one row of that     *)
(* pair, whose balance is the sum of theirs; no other row is in it.         *)
C2_OneRowPerPair ==
    pc = "search" =>
        LET keyed == {i \in SellableIdx : RawTable.rows[i][MskuIdx] # NaN}
        IN  /\ \A r1, r2 \in agg :
                  r1.Location = r2.Location /\ r1.MSKU = r2.MSKU => r1 = r2
            /\ \A i \in keyed :
                  \E r \in agg :
                      /\ <<r.Location, r.MSKU>> = RawKey(i)
                      /\ r.Balance =
                            SumIdx(df.rows, {j \in keyed : RawKey(j) = RawKey(i)}, BalIdx)
            /\ \A r \in agg : \E i \in keyed : <<r.Location, r.MSKU>> = RawKey(i)

C2_Witness ==
    /\ pc = "search"
    /\ RawTable.rows = << <<M_ABC1, T_SELLABLE, <<"3">>, <<"A">>>>,
                          <<M_ABC1, D_Sellable, <<"2">>, <<"A">>>> >>
    /\ agg = {[Location |-> <<"A">>, MSKU |-> M_ABC1, Balance |-> 5]}

(* the fields no header of the file matches, by canonical name or by alias, *)
(* ignoring case and surrounding whitespace                                 *)
Unresolved ==
    LET present == {Upper(Strip(RawTable.columns[i])) : i \in DOMAIN RawTable.columns}
    IN  {k \in DOMAIN required :
            Upper(required[k]) \notin present /\ Upper(KeyText[k]) \notin present}

TrimmedHeaders == [i \in DOMAIN RawTable.columns |-> Strip(RawTable.columns[i])]

ExampleHeaders == << <<"S","K","U">>, T_Disposition, <<"B","a","l","a","n","c","e">> >>

(* C3 as claimed: an unresolved field halts the run before normalisation    *)
(* with a schema error that lists the names of the missing fields and the   *)
(* headers present.                                                         *)
C3_ListsMissingFields ==
    Loaded /\ pc # "resolve" /\ Unresolved # {} =>
        /\ pc = "stopped"
        /\ message.what = "schema"
        /\ {message.required[i] : i \in DOMAIN message.required}
              = {required[k] : k \in Unresolved}
        /\ message.found = TrimmedHeaders

(* C3 as amended: once the columns are resolved, an unresolved field has    *)
(* halted the run, before normalisation, with a schema error that lists all *)
(* four required names and the trimmed headers present; the error is shown  *)
(* in no other case; for headers [SKU, Disposition, Balance] msku and       *)
(* location are the unresolved fields.                                      *)
C3_ListsRequiredFields ==
    /\ message.what = "schema" => pc = "stopped" /\ message.kind = "error"
    /\ Loaded /\ pc \in {"normalize", "stopped"} =>
          /\ Unresolved # {} =>
                /\ pc = "stopped"
                /\ message.kind = "error"
                /\ message.what = "schema"
                /\ message.required = <<T_MSKU, T_Disposition, T_Balance, T_Location>>
                /\ message.found = TrimmedHeaders
                /\ df.rows = RawTable.rows
                /\ df_sellable = <<>>
                /\ NothingRendered
          /\ message.what = "schema" => Unresolved # {}
          /\ RawTable.columns = ExampleHeaders =>
                /\ Unresolved = {"msku", "location"}
                /\ message.found = ExampleHeaders

C3_Witness ==
    /\ pc = "stopped"
    /\ message.what = "schema"
    /\ RawTable.columns = ExampleHeaders
    /\ found.location = None
    /\ found.disposition = T_Disposition

(* C4: a run that shows the empty-result warning has stopped with no        *)
(* metrics, no card, no CSV and no PDF; once the rows are filtered, the     *)
(* warning is shown exactly when no input row reads SELLABLE in any case    *)
(* and padding, and the run goes on to aggregate only when some row does.   *)
C4_EmptyResultWarning ==
    /\ message.kind = "warning" => pc = "stopped" /\ NothingRendered /\ agg = {}
    /\ Aggregated => ~Empty(df_sellable)
    /\ Normalized /\ pc \in {"aggregate", "stopped"} =>
          /\ SellableIdx = {} <=> message.kind = "warning"
          /\ SellableIdx # {} => pc = "aggregate" /\ message.kind = "none"

C4_Witness ==
    /\ message.kind = "warning"
    /\ pc = "stopped"
    /\ RawTable = DamagedTable

(* C5: the reads are tried in the order default, latin1, utf-8, lenient;    *)
(* every read before the last one tried raised, so nothing is tried after a *)
(* success and the lenient read only after three raises; the frame is the   *)
(* table of the first read that does not raise; the read error is shown     *)
(* exactly when all four raised.                                            *)
C5_ReadOrder ==
    LET order == <<"default", "latin1", "utf-8", "lenient">>
        good == {i \in 1..4 : order[i] \notin file.raises}
    IN  /\ Len(attempts) <= 4
        /\ \A i \in 1..Len(attempts) : attempts[i] = order[i]
        /\ \A i \in 1..(Len(attempts) - 1) : attempts[i] \in file.raises
        /\ pc = "read" => \A i \in 1..Len(attempts) : attempts[i] \in file.raises
        /\ Loaded =>
              /\ good # {}
              /\ Len(attempts) = CHOOSE i \in good : \A j \in good : i <= j
              /\ pc = "resolve" => df = file.tables[order[Len(attempts)]]
        /\ message.what = "read" => good = {} /\ Len(attempts) = 4 /\ pc = "stopped"
        /\ good = {} /\ pc # "read" => message.what = "read" /\ message.kind = "error"

C5_Witness ==
    /\ pc = "resolve"
    /\ attempts = <<"default", "latin1", "utf-8", "lenient">>
    /\ file.raises = {"default", "latin1", "utf-8"}
    /\ df = file.tables["lenient"]
    /\ message = NoMessage

(* C6: once the columns are resolved, each field is resolved to a header    *)
(* that equals its canonical name or, if no header does, its alias,         *)
(* ignoring case and surrounding whitespace; it is not found only when no   *)
(* header matches either name.                                              *)
C6_ColumnResolution ==
    Loaded /\ pc \in {"normalize", "stopped"} =>
        LET headers == {[trimmed |-> Strip(RawTable.columns[i]),
                         folded  |-> Upper(Strip(RawTable.columns[i]))] :
                            i \in DOMAIN RawTable.columns}
        IN  \A k \in DOMAIN required :
                LET canon == {h \in headers : h.folded = Upper(required[k])}
                    alias == {h \in headers : h.folded = Upper(KeyText[k])}
                IN  /\ found[k] = None <=> canon \cup alias = {}
                    /\ canon # {} => \E h \in canon : found[k] = h.trimmed
                    /\ canon = {} /\ alias # {} => \E h \in alias : found[k] = h.trimmed

C6_Witness ==
    /\ pc = "normalize"
    /\ RawTable.columns =
          << <<" ","m","s","k","u"," ">>, T_Disposition,
             <<"B","a","l","a","n","c","e">>, T_Location >>
    /\ found.msku = <<"m","s","k","u">>
    /\ found.balance = <<"B","a","l","a","n","c","e">>

(* the integer the claim gives a balance cell: keep the digits, "." and "-" *)
(* (which drops the commas too), read an optional leading "-", digits with  *)
(* at most one ".", and keep the whole part; 0 when that is no number       *)
ExpectedBalance(cell) ==
    LET numerals == <<"0","1","2","3","4","5","6","7","8","9">>
        text == IF cell = NaN THEN <<"n","a","n">> ELSE cell
        isNum(c) == \E d \in 1..10 : numerals[d] = c
        rest == SelectSeq(text, LAMBDA c : isNum(c) \/ c \in {".", "-"})
        minus == Len(rest) > 0 /\ rest[1] = "-"
        unsigned == IF minus THEN SubSeq(rest, 2, Len(rest)) ELSE rest
        points == {i \in 1..Len(unsigned) : unsigned[i] = "."}
        number == /\ \A i \in 1..Len(unsigned) : unsigned[i] # "-"
                  /\ Cardinality(points) < 2
                  /\ Len(unsigned) > Cardinality(points)
        wholeLen == IF points = {} THEN Len(unsigned)
                    ELSE (CHOOSE i \in points : TRUE) - 1
        val(c) == (CHOOSE d \in 1..10 : numerals[d] = c) - 1
        pow[n \in 0..wholeLen] == IF n = 0 THEN 1 ELSE 10 * pow[n - 1]
        part[i \in 0..wholeLen] ==
            IF i = 0 THEN 0 ELSE part[i - 1] + val(unsigned[i]) * pow[wholeLen - i]
    IN  IF ~number THEN 0
        ELSE IF minus THEN 0 - part[wholeLen] ELSE part[wholeLen]

(* C7: balance normalisation, where it has just run, has kept every row     *)
(* and given each cell the integer of ExpectedBalance: "1,234.9 units"      *)
(* gives 1234, "abc" gives 0, "-56" gives -56.                              *)
C7_BalanceNormalisation ==
    Normalized /\ pc \in {"aggregate", "stopped"} =>
        /\ Len(df.rows) = Len(RawTable.rows)
        /\ \A i \in 1..Len(df.rows) :
              LET cell == RawTable.rows[i][BalIdx]
              IN  /\ df.rows[i][BalIdx] \in Int
                  /\ df.rows[i][BalIdx] = ExpectedBalance(cell)
                  /\ cell = B_units => df.rows[i][BalIdx] = 1234
                  /\ cell = B_abc => df.rows[i][BalIdx] = 0
                  /\ cell = B_minus56 => df.rows[i][BalIdx] = 0 - 56

C7_Witness ==
    /\ Normalized
    /\ Len(RawTable.rows) = 1
    /\ RawTable.rows[1][BalIdx] = B_units
    /\ df.rows[1][BalIdx] = 1234

(* C8: for a non-empty filter text the filtered view keeps exactly the rows *)
(* of the aggregate whose MSKU contains the text as a literal substring,    *)
(* case-insensitively, and the location totals and list are those of the    *)
(* kept rows.  The code hands the text to a regular-expression search.      *)
C8_LiteralSubstringFilter ==
    pc = "cards" /\ Strip(search_text) # <<>> =>
        LET needle == Lower(Strip(search_text))
        IN  /\ agg = {r \in FullAggregate : LiteralContains(Lower(r.MSKU), needle)}
            /\ location_totals = LocationTotals(agg)
            /\ {locations[i] : i \in DOMAIN locations} = {r.Location : r \in agg}

(* C9: whatever the filter text, the aggregate CSV and the PDF report hold  *)
(* every row of the full aggregate.  The code renders both from the         *)
(* filtered frame.                                                          *)
C9_DownloadsUseFullAggregate ==
    /\ agg_csv.produced => agg_csv.rows = FullAggregate
    /\ pdf.produced =>
          UNION {{[Location |-> sec.Location, MSKU |-> r.MSKU, Balance |-> r.Balance] :
                     r \in sec.rows} : sec \in pdf.sections} = FullAggregate

LocationTotal(loc) == SumBalance({r \in agg : r.Location = loc})

(* C10: the location list holds each location of the aggregate once, in     *)
(* non-increasing order of its total (the sum of its rows' balances); when  *)
(* the metrics are computed the warehouse count is the length of the list   *)
(* and the grand total is the sum of the location totals.                   *)
C10_LocationList ==
    /\ Aggregated =>
          /\ {locations[i] : i \in DOMAIN locations} = {r.Location : r \in agg}
          /\ \A i, j \in DOMAIN locations : i # j => locations[i] # locations[j]
          /\ \A i, j \in DOMAIN locations :
                i < j => LocationTotal(locations[i]) >= LocationTotal(locations[j])
    /\ pc = "search" =>
          /\ metrics.produced
          /\ metrics.total_warehouses = Len(locations)
          /\ metrics.total_warehouses = Cardinality({r.Location : r \in agg})
          /\ metrics.overall_total =
                SumSeq([i \in DOMAIN locations |-> LocationTotal(locations[i])])

C10_Witness ==
    /\ pc = "search"
    /\ Len(locations) = 3
    /\ LocationTotal(locations[1]) > LocationTotal(locations[2])
    /\ LocationTotal(locations[2]) > LocationTotal(locations[3])
    /\ metrics.overall_total = 10

====
